---- MODULE Spec2Model ----
(***************************************************************************)
(* Host-side exception interception of the enclave runtime:                *)
(* _register_signal_handlers / oe_initialize_host_exception (the           *)
(* Installer) and _host_signal_handler (the Exception Translator and the   *)
(* Disposition Resolver), together with the part of the POSIX signal       *)
(* machinery they drive: per-signal dispositions, per-thread signal masks, *)
(* delivery, sigreturn, signal(), raise().                                 *)
(***************************************************************************)
EXTENDS Integers, Sequences, FiniteSets, TLC

(* ---------------------------------------------------------------------- *)
(* Signal numbers (Linux x86-64 <signal.h>), as used by the two catalogs.  *)
(* ---------------------------------------------------------------------- *)
SIGHUP == 1
SIGINT == 2
SIGQUIT == 3
SIGILL == 4
SIGTRAP == 5
SIGABRT == 6
SIGBUS == 7
SIGFPE == 8
SIGUSR1 == 10
SIGSEGV == 11
SIGUSR2 == 12
SIGPIPE == 13
SIGALRM == 14
SIGPOLL == 29

default_signals == <<SIGBUS, SIGFPE, SIGILL, SIGSEGV, SIGTRAP>>
DEFAULT_SIGNALS_NUMBER == Len(default_signals)

optional_signals ==
    <<SIGHUP, SIGABRT, SIGALRM, SIGPIPE, SIGPOLL, SIGUSR1, SIGUSR2>>
OPTIONAL_SIGNALS_NUMBER == Len(optional_signals)

Range(seq) == {seq[i] : i \in 1..Len(seq)}
Mandatory == Range(default_signals)
Optional == Range(optional_signals)
Catalog == Mandatory \cup Optional
\* Two signals outside the catalog stand for "every other signal".
NonCatalog == {SIGINT, SIGQUIT}
Signals == Catalog \cup NonCatalog

(* ---------------------------------------------------------------------- *)
(* struct sigaction.  sa_handler and sa_sigaction share storage, so one    *)
(* field holds the handler reference.                                      *)
(* ---------------------------------------------------------------------- *)
SIG_DFL == "SIG_DFL"
SIG_IGN == "SIG_IGN"
HOST_HANDLER == "_host_signal_handler"
USER_HANDLER == "user_handler"

SA_SIGINFO == "SA_SIGINFO"
SA_NODEFER == "SA_NODEFER"
SA_RESTART == "SA_RESTART"
SA_RESETHAND == "SA_RESETHAND"

OE_EXCEPTION_CONTINUE_EXECUTION == "OE_EXCEPTION_CONTINUE_EXECUTION"
OE_EXCEPTION_CONTINUE_SEARCH == "OE_EXCEPTION_CONTINUE_SEARCH"
Verdicts == {OE_EXCEPTION_CONTINUE_EXECUTION, OE_EXCEPTION_CONTINUE_SEARCH}

SigAction(h, m, f) == [sa_handler |-> h, sa_mask |-> m, sa_flags |-> f]
\* A zero-filled struct sigaction (static storage, memset 0).
ZeroSigaction == SigAction(SIG_DFL, {}, {})

(* ---------------------------------------------------------------------- *)
(* Bounds and input domains.                                               *)
(* ---------------------------------------------------------------------- *)
MaxDeliveries == 2      \* signals the environment generates in one run
MaxDepth == 2           \* handler frames nested on one thread

MAIN == "main"
WORKER == "worker"
Threads == {MAIN, WORKER}

\* Dispositions the host program may have registered before installation.
UserFlagSets == SUBSET {SA_SIGINFO, SA_NODEFER, SA_RESETHAND}
UserMasks == {{SIGQUIT}}
PriorChoices ==
    {ZeroSigaction, SigAction(SIG_IGN, {}, {})}
    \cup {SigAction(USER_HANDLER, m, f) : m \in UserMasks, f \in UserFlagSets}
\* The signals that may carry a handler of the host program: the first
\* and one more of each catalog, SIGSEGV and SIGABRT.
HandlerSignals == {SIGBUS, SIGSEGV, SIGTRAP, SIGHUP, SIGABRT, SIGUSR1}
\* Signal masks the caller of oe_initialize_host_exception may run with.
CallerMasks == {{SIGINT}, {SIGINT, SIGUSR2}}
\* What a chained previous handler may leave in the thread's mask.
ScribbleMask == {SIGINT, SIGQUIT}

VARIABLES
    status,                 \* "running", "terminated" (default action),
                            \* "aborted" (abort()), "crashed" (wild call)
    live,                   \* the OS disposition of every signal
    g_previous_sigaction,   \* the Registry
    mask,                   \* each thread's signal mask
    pending,                \* signals raised while blocked, per thread
    stack,                  \* each thread's nest of _host_signal_handler
                            \* frames, innermost first
    inst_pc,                \* position inside oe_initialize_host_exception
    inst_i,                 \* loop index i of _register_signal_handlers
    sig_action,             \* the local sig_action of the Installer
    init_calls,             \* calls of oe_initialize_host_exception left
    install_failed,         \* history: sigprocmask or sigaction returned
                            \* non-zero inside the Installer
    env_early,              \* may signals arrive before installation ends
    env_sig,                \* the signal the environment generates
    deliveries,             \* number of deliveries so far
    caller_mask,            \* history: the caller's mask at install time
    pre_install,            \* history: dispositions before installation
    prev_calls,             \* history: invocations of a previous handler
    oneshot_done,           \* history: a one-shot chain of s has completed
    dfl_actions,            \* history: OS default actions performed
    raised,                 \* history: calls of raise()
    last_outcome            \* history: the Resolver's latest decision

vars == <<status, live, g_previous_sigaction, mask, pending, stack, inst_pc,
          inst_i, sig_action, init_calls, install_failed, env_early, env_sig,
          deliveries,
          caller_mask, pre_install, prev_calls, oneshot_done, dfl_actions,
          raised, last_outcome>>

os_vars == <<live, mask, pending>>
inst_vars == <<inst_pc, inst_i, sig_action, init_calls, install_failed>>
env_vars == <<env_early, env_sig>>
hist_vars == <<caller_mask, pre_install, prev_calls, oneshot_done,
               dfl_actions, raised, last_outcome>>

(* ---------------------------------------------------------------------- *)
(* Initial states: the host program before oe_initialize_host_exception.   *)
(* One catalog signal carries an arbitrary prior disposition; the signals  *)
(* outside the catalog carry the program's own handler.                    *)
(* ---------------------------------------------------------------------- *)
InitWith(calls, early) ==
    /\ status = "running"
    /\ \E s \in Catalog, d \in PriorChoices :
          /\ d.sa_handler = USER_HANDLER => s \in HandlerSignals
          /\ env_sig = s
          /\ live = [x \in Signals |->
                       IF x = s THEN d
                       ELSE IF x \in NonCatalog
                            THEN SigAction(USER_HANDLER, {}, {SA_RESTART})
                            ELSE ZeroSigaction]
    /\ g_previous_sigaction = [x \in Signals |-> ZeroSigaction]
    /\ \E cm \in CallerMasks : mask = [t \in Threads |-> cm]
    /\ pending = [t \in Threads |-> {}]
    /\ stack = [t \in Threads |-> <<>>]
    /\ inst_pc = "not_called"
    /\ inst_i = 0
    /\ sig_action = ZeroSigaction
    /\ init_calls = calls
    /\ install_failed = FALSE
    /\ env_early = early
    /\ deliveries = 0
    /\ caller_mask = {}
    /\ pre_install = live
    /\ prev_calls = 0
    /\ oneshot_done = {}
    /\ dfl_actions = 0
    /\ raised = 0
    /\ last_outcome = "none"

Init == InitWith(1, FALSE)

Running == status = "running"
\* The Installer runs on the main thread, outside any signal handler.
MainRuns == Running /\ stack[MAIN] = <<>>

(* ---------------------------------------------------------------------- *)
(* oe_initialize_host_exception / _register_signal_handlers                *)
(* ---------------------------------------------------------------------- *)
\* The sig_action the Installer prepares before it queries the mask.
HostSigaction ==
    SigAction(HOST_HANDLER, {}, {SA_SIGINFO, SA_NODEFER, SA_RESTART})

\* Entry: memset, sa_sigaction, sa_flags, sigemptyset.
oe_initialize_host_exception ==
    /\ MainRuns
    /\ inst_pc \in {"not_called", "returned"}
    /\ init_calls > 0
    /\ init_calls' = init_calls - 1
    /\ sig_action' = HostSigaction
    /\ inst_pc' = "sigprocmask"
    /\ inst_i' = 0
    /\ caller_mask' = mask[MAIN]
    /\ pre_install' = live
    /\ UNCHANGED <<status, os_vars, g_previous_sigaction, stack, env_vars,
                   deliveries, prev_calls, oneshot_done, dfl_actions, raised,
                   last_outcome, install_failed>>

\* sigprocmask(SIG_SETMASK, NULL, &sig_action.sa_mask), abort() on failure.
QueryMask ==
    /\ MainRuns
    /\ inst_pc = "sigprocmask"
    /\ \E ok \in BOOLEAN :
          IF ok
          THEN /\ sig_action' = [sig_action EXCEPT !.sa_mask = mask[MAIN]]
               /\ inst_pc' = "default_loop"
               /\ inst_i' = 1
               /\ UNCHANGED <<status, install_failed>>
          ELSE /\ status' = "aborted"
               /\ install_failed' = TRUE
               /\ UNCHANGED <<sig_action, inst_pc, inst_i>>
    /\ UNCHANGED <<os_vars, g_previous_sigaction, stack, init_calls, env_vars,
                   deliveries, hist_vars>>

\* sigdelset(&sig_action.sa_mask, signal_number)
Sigdelset(sa, signal_number) ==
    [sa EXCEPT !.sa_mask = sa.sa_mask \ {signal_number}]

\* The iteration capturing the disposition after it installed its own.
RegisterOne_CaptureAfter(signal_number, next_pc, next_i) ==
    \E ok \in BOOLEAN :
        IF ok
        THEN /\ sig_action' = Sigdelset(sig_action, signal_number)
             /\ live' = [live EXCEPT ![signal_number] = sig_action']
             /\ g_previous_sigaction' =
                    [g_previous_sigaction EXCEPT
                        ![signal_number] = live'[signal_number]]
             /\ inst_pc' = next_pc
             /\ inst_i' = next_i
             /\ UNCHANGED <<status, install_failed>>
        ELSE /\ status' = "aborted"
             /\ install_failed' = TRUE
             /\ sig_action' = Sigdelset(sig_action, signal_number)
             /\ UNCHANGED <<g_previous_sigaction, live, inst_pc, inst_i>>

\* The iteration that skips a signal whose sigaction() failed and goes on.
RegisterOne_IgnoresFailure(signal_number, next_pc, next_i) ==
    \E ok \in BOOLEAN :
        /\ sig_action' = Sigdelset(sig_action, signal_number)
        /\ inst_pc' = next_pc
        /\ inst_i' = next_i
        /\ UNCHANGED status
        /\ IF ok
           THEN /\ g_previous_sigaction' =
                       [g_previous_sigaction EXCEPT
                           ![signal_number] = live[signal_number]]
                /\ live' = [live EXCEPT ![signal_number] = sig_action']
                /\ UNCHANGED install_failed
           ELSE /\ install_failed' = TRUE
                /\ UNCHANGED <<g_previous_sigaction, live>>

\* The iteration that installs the handler without asking for the old
\* disposition (sigaction with a null oldact).
RegisterOne_NoCapture(signal_number, next_pc, next_i) ==
    \E ok \in BOOLEAN :
        IF ok
        THEN /\ sig_action' = Sigdelset(sig_action, signal_number)
             /\ live' = [live EXCEPT ![signal_number] = sig_action']
             /\ inst_pc' = next_pc
             /\ inst_i' = next_i
             /\ UNCHANGED <<status, install_failed, g_previous_sigaction>>
        ELSE /\ status' = "aborted"
             /\ install_failed' = TRUE
             /\ sig_action' = Sigdelset(sig_action, signal_number)
             /\ UNCHANGED <<g_previous_sigaction, live, inst_pc, inst_i>>

\* The iteration that keeps an entry captured by an earlier call: the old
\* disposition is stored only into an entry that is still zero.
RegisterOne_KeepsCaptured(signal_number, next_pc, next_i) ==
    \E ok \in BOOLEAN :
        IF ok
        THEN /\ sig_action' = Sigdelset(sig_action, signal_number)
             /\ g_previous_sigaction' =
                    [g_previous_sigaction EXCEPT
                        ![signal_number] =
                            IF @ = ZeroSigaction
                            THEN live[signal_number] ELSE @]
             /\ live' = [live EXCEPT ![signal_number] = sig_action']
             /\ inst_pc' = next_pc
             /\ inst_i' = next_i
             /\ UNCHANGED <<status, install_failed>>
        ELSE /\ status' = "aborted"
             /\ install_failed' = TRUE
             /\ sig_action' = Sigdelset(sig_action, signal_number)
             /\ UNCHANGED <<g_previous_sigaction, live, inst_pc, inst_i>>

\* One iteration of either loop: sigdelset, then sigaction(signal_number,
\* &sig_action, &g_previous_sigaction[signal_number]); abort() on failure.
RegisterOne(signal_number, next_pc, next_i) ==
    \E ok \in BOOLEAN :
        IF ok
        THEN /\ sig_action' = Sigdelset(sig_action, signal_number)
             /\ g_previous_sigaction' =
                    [g_previous_sigaction EXCEPT
                        ![signal_number] = live[signal_number]]
             /\ live' = [live EXCEPT ![signal_number] = sig_action']
             /\ inst_pc' = next_pc
             /\ inst_i' = next_i
             /\ UNCHANGED <<status, install_failed>>
        ELSE /\ status' = "aborted"
             /\ install_failed' = TRUE
             /\ sig_action' = Sigdelset(sig_action, signal_number)
             /\ UNCHANGED <<g_previous_sigaction, live, inst_pc, inst_i>>

RegisterDefault ==
    /\ MainRuns
    /\ inst_pc = "default_loop"
    /\ IF inst_i < DEFAULT_SIGNALS_NUMBER
       THEN RegisterOne(default_signals[inst_i], "default_loop", inst_i + 1)
       ELSE RegisterOne(default_signals[inst_i], "optional_loop", 1)
    /\ UNCHANGED <<mask, pending, stack, init_calls, env_vars, deliveries,
                   hist_vars>>

RegisterOptional ==
    /\ MainRuns
    /\ inst_pc = "optional_loop"
    /\ IF inst_i < OPTIONAL_SIGNALS_NUMBER
       THEN RegisterOne(optional_signals[inst_i], "optional_loop", inst_i + 1)
       ELSE RegisterOne(optional_signals[inst_i], "returned", 0)
    /\ UNCHANGED <<mask, pending, stack, init_calls, env_vars, deliveries,
                   hist_vars>>

(* ---------------------------------------------------------------------- *)
(* The operating system: delivery of a signal to a thread, sigreturn.      *)
(* ---------------------------------------------------------------------- *)
\* The caller guarantees installation completes before a signal in scope
\* can occur, unless the environment is an early one.
SignalsMayArrive == env_early \/ inst_pc = "returned"

Top(t) == Head(stack[t])
SetTop(t, f) == [stack EXCEPT ![t] = <<f>> \o Tail(@)]
Goto(t, label) == SetTop(t, [Top(t) EXCEPT !.pc = label])
At(t, label) == Running /\ stack[t] # <<>> /\ Top(t).pc = label

\* A fresh activation of _host_signal_handler(sig_num, sig_info, sig_data).
NewFrame(sig_num, saved_mask, by_call) ==
    [sig |-> sig_num, pc |-> "translate", signal_number |-> -1,
     action |-> "none", current_set |-> {}, uc_mask |-> saved_mask,
     before_swap |-> {}, form |-> "none", arg |-> -1, ncalls |-> 0,
     direct |-> by_call, late |-> sig_num \in oneshot_done]

\* The mask the kernel gives the handler of a signal on delivery.
HandlerMask(old, sig_num, sa) ==
    old \cup sa.sa_mask
        \cup (IF SA_NODEFER \in sa.sa_flags THEN {} ELSE {sig_num})

\* The kernel enters the live handler of sig_num on thread t.
Enter(t, sig_num) ==
    /\ stack' = [stack EXCEPT ![t] = <<NewFrame(sig_num, mask[t], FALSE)>> \o @]
    /\ mask' = [mask EXCEPT ![t] = HandlerMask(@, sig_num, live[sig_num])]

\* The handler returns: sigreturn restores the interrupted mask; a handler
\* entered by a plain call just returns.
LeaveFrame(t) ==
    /\ stack' = [stack EXCEPT ![t] = Tail(@)]
    /\ mask' = [mask EXCEPT ![t] = IF Top(t).direct THEN @ ELSE Top(t).uc_mask]

\* A signal generated by the environment, or one left pending by raise(),
\* reaches a thread that does not block it while _host_signal_handler is
\* its live handler.
Deliver(t, s) ==
    /\ Running
    /\ s \notin mask[t]
    /\ live[s].sa_handler = HOST_HANDLER
    /\ Len(stack[t]) < MaxDepth
    /\ \/ /\ s \in pending[t]
          /\ pending' = [pending EXCEPT ![t] = @ \ {s}]
          /\ UNCHANGED deliveries
       \/ /\ s \notin pending[t]
          /\ s = env_sig
          /\ SignalsMayArrive
          /\ deliveries < MaxDeliveries
          /\ deliveries' = deliveries + 1
          /\ UNCHANGED pending
    /\ Enter(t, s)
    /\ UNCHANGED <<status, live, g_previous_sigaction, inst_vars, env_vars,
                   hist_vars>>

\* The same signal reaches a thread while its live disposition is SIG_DFL:
\* the default action of every catalog signal ends the process.
DeliverDefault(t, s) ==
    /\ Running
    /\ s \notin mask[t]
    /\ live[s].sa_handler = SIG_DFL
    /\ s = env_sig
    /\ SignalsMayArrive
    /\ deliveries < MaxDeliveries
    /\ deliveries' = deliveries + 1
    /\ status' = "terminated"
    /\ dfl_actions' = dfl_actions + 1
    /\ UNCHANGED <<os_vars, g_previous_sigaction, stack, inst_vars, env_vars,
                   caller_mask, pre_install, prev_calls, oneshot_done, raised,
                   last_outcome>>

(* ---------------------------------------------------------------------- *)
(* _host_signal_handler: the Exception Translator                          *)
(* ---------------------------------------------------------------------- *)
\* The carve-out without its SIGSEGV exception.
ReportedSignalNumber_NoSegvCase(sig_num) ==
    IF \E i \in 1..DEFAULT_SIGNALS_NUMBER : sig_num = default_signals[i]
    THEN 0
    ELSE sig_num

\* host_context.signal_number after the carve-out loop.
ReportedSignalNumber(sig_num) ==
    IF \E i \in 1..DEFAULT_SIGNALS_NUMBER :
          sig_num = default_signals[i] /\ sig_num # SIGSEGV
    THEN 0
    ELSE sig_num

\* Build host_context and call oe_host_handle_exception(&host_context).
Translate(t) ==
    /\ At(t, "translate")
    /\ \E verdict \in Verdicts :
          stack' = SetTop(t, [Top(t) EXCEPT
                      !.signal_number = ReportedSignalNumber(Top(t).sig),
                      !.action = verdict,
                      !.pc = "resolve"])
    /\ UNCHANGED <<status, os_vars, g_previous_sigaction, inst_vars, env_vars,
                   deliveries, hist_vars>>

(* ---------------------------------------------------------------------- *)
(* _host_signal_handler: the Disposition Resolver                          *)
(* ---------------------------------------------------------------------- *)
\* The Resolver without the bypass of optional signals.
Resolution_NoBypass(action, sig_num, registry) ==
    IF action = OE_EXCEPTION_CONTINUE_EXECUTION
    THEN "continue"
    ELSE IF registry[sig_num].sa_handler = SIG_DFL
         THEN "reraise"
         ELSE "chain"

\* The Resolver looking at the Registry before it looks at the verdict.
Resolution_RegistryFirst(action, sig_num, registry) ==
    IF registry[sig_num].sa_handler # SIG_DFL
    THEN "chain"
    ELSE IF action = OE_EXCEPTION_CONTINUE_EXECUTION
         THEN "continue"
         ELSE IF \E i \in 1..OPTIONAL_SIGNALS_NUMBER :
                    sig_num = optional_signals[i] /\ sig_num # SIGABRT
              THEN "bypass"
              ELSE "reraise"

\* The Resolver keyed on the number reported to the runtime
\* (host_context.signal_number) instead of sig_num; slot 0 of the Registry
\* is never written and stays zero.
Resolution_ByReported(action, sig_num, registry) ==
    LET n == ReportedSignalNumber(sig_num)
        entry == IF n \in DOMAIN registry THEN registry[n] ELSE ZeroSigaction
    IN  IF action = OE_EXCEPTION_CONTINUE_EXECUTION
        THEN "continue"
        ELSE IF entry.sa_handler = SIG_DFL
             THEN IF \E i \in 1..OPTIONAL_SIGNALS_NUMBER :
                        n = optional_signals[i] /\ n # SIGABRT
                  THEN "bypass"
                  ELSE "reraise"
             ELSE "chain"

\* The Resolver acting whatever oe_host_handle_exception returned.
Resolution_IgnoresVerdict(action, sig_num, registry) ==
    IF registry[sig_num].sa_handler = SIG_DFL
    THEN IF \E i \in 1..OPTIONAL_SIGNALS_NUMBER :
               sig_num = optional_signals[i] /\ sig_num # SIGABRT
         THEN "bypass"
         ELSE "reraise"
    ELSE "chain"

\* The branch taken after oe_host_handle_exception returned `action`.
Resolution(action, sig_num, registry) ==
    IF action = OE_EXCEPTION_CONTINUE_EXECUTION
    THEN "continue"
    ELSE IF registry[sig_num].sa_handler = SIG_DFL
         THEN IF \E i \in 1..OPTIONAL_SIGNALS_NUMBER :
                    sig_num = optional_signals[i] /\ sig_num # SIGABRT
              THEN "bypass"
              ELSE "reraise"
         ELSE "chain"

Resolve(t) ==
    /\ At(t, "resolve")
    /\ LET r == Resolution(Top(t).action, Top(t).sig, g_previous_sigaction)
       IN  /\ IF r \in {"continue", "bypass"}
              THEN LeaveFrame(t)
              ELSE /\ stack' = Goto(t, IF r = "reraise" THEN "signal"
                                                         ELSE "sigaddset")
                   /\ UNCHANGED mask
           /\ last_outcome' = r
    /\ UNCHANGED <<status, live, pending, g_previous_sigaction, inst_vars,
                   env_vars, deliveries, caller_mask, pre_install, prev_calls,
                   oneshot_done, dfl_actions, raised>>

\* The re-raise without the reset of the live disposition.
SignalDfl_Skipped(t) ==
    /\ At(t, "signal")
    /\ stack' = Goto(t, "raise")
    /\ UNCHANGED <<status, os_vars, g_previous_sigaction, inst_vars, env_vars,
                   deliveries, hist_vars>>

\* The re-raise resetting every catalog signal to the default action.
SignalDfl_AllCatalog(t) ==
    /\ At(t, "signal")
    /\ live' = [x \in Signals |->
                  IF x \in Catalog
                  THEN SigAction(SIG_DFL, {x}, {SA_RESTART})
                  ELSE live[x]]
    /\ stack' = Goto(t, "raise")
    /\ UNCHANGED <<status, mask, pending, g_previous_sigaction, inst_vars,
                   env_vars, deliveries, hist_vars>>

\* signal(sig_num, SIG_DFL): glibc installs the handler with the BSD flags.
SignalDfl(t) ==
    /\ At(t, "signal")
    /\ live' = [live EXCEPT
                  ![Top(t).sig] = SigAction(SIG_DFL, {Top(t).sig}, {SA_RESTART})]
    /\ stack' = Goto(t, "raise")
    /\ UNCHANGED <<status, mask, pending, g_previous_sigaction, inst_vars,
                   env_vars, deliveries, hist_vars>>

\* raise(sig_num): the signal is sent to the calling thread and, unless the
\* thread blocks it, acted on before raise() returns.
Raise(t) ==
    /\ At(t, "raise")
    /\ raised' = raised + 1
    /\ LET s == Top(t).sig
       IN  IF s \in mask[t]
           THEN /\ pending' = [pending EXCEPT ![t] = @ \cup {s}]
                /\ stack' = Goto(t, "return")
                /\ UNCHANGED <<status, mask, dfl_actions>>
           ELSE IF live[s].sa_handler = SIG_DFL
           THEN /\ status' = "terminated"
                /\ dfl_actions' = dfl_actions + 1
                /\ UNCHANGED <<stack, mask, pending>>
           ELSE IF live[s].sa_handler = HOST_HANDLER
           THEN /\ Len(stack[t]) < MaxDepth
                /\ stack' = [stack EXCEPT ![t] =
                       <<NewFrame(s, mask[t], FALSE),
                         [Top(t) EXCEPT !.pc = "return"]>> \o Tail(@)]
                /\ mask' = [mask EXCEPT ![t] = HandlerMask(@, s, live[s])]
                /\ UNCHANGED <<status, pending, dfl_actions>>
           ELSE /\ stack' = Goto(t, "return")
                /\ UNCHANGED <<status, mask, pending, dfl_actions>>
    /\ UNCHANGED <<live, g_previous_sigaction, inst_vars, env_vars, deliveries,
                   caller_mask, pre_install, prev_calls, oneshot_done,
                   last_outcome>>

\* The sigaddset without its SA_NODEFER test.
AddSelf_Always(sig_num, sa) == [sa EXCEPT !.sa_mask = @ \cup {sig_num}]

\* if (!(sa_flags & SA_NODEFER)) sigaddset(&g_previous_sigaction[sig_num].sa_mask, sig_num)
AddSelf(sig_num, sa) ==
    IF SA_NODEFER \notin sa.sa_flags
    THEN [sa EXCEPT !.sa_mask = @ \cup {sig_num}]
    ELSE sa

ChainAddset(t) ==
    /\ At(t, "sigaddset")
    /\ g_previous_sigaction' =
          [g_previous_sigaction EXCEPT
              ![Top(t).sig] = AddSelf(Top(t).sig, @)]
    /\ stack' = Goto(t, "sigmask")
    /\ UNCHANGED <<status, os_vars, inst_vars, env_vars, deliveries, hist_vars>>

\* The swap adding the saved mask to the thread's mask (SIG_BLOCK) instead
\* of replacing it.
ChainSetmask_Block(t) ==
    /\ At(t, "sigmask")
    /\ stack' = SetTop(t, [Top(t) EXCEPT
                   !.current_set = mask[t],
                   !.before_swap = mask[t],
                   !.pc = "call"])
    /\ mask' = [mask EXCEPT
                   ![t] = @ \cup g_previous_sigaction[Top(t).sig].sa_mask]
    /\ UNCHANGED <<status, live, pending, g_previous_sigaction, inst_vars,
                   env_vars, deliveries, hist_vars>>

\* pthread_sigmask(SIG_SETMASK, &g_previous_sigaction[sig_num].sa_mask, &current_set)
ChainSetmask(t) ==
    /\ At(t, "sigmask")
    /\ stack' = SetTop(t, [Top(t) EXCEPT
                   !.current_set = mask[t],
                   !.before_swap = mask[t],
                   !.pc = "call"])
    /\ mask' = [mask EXCEPT ![t] = g_previous_sigaction[Top(t).sig].sa_mask]
    /\ UNCHANGED <<status, live, pending, g_previous_sigaction, inst_vars,
                   env_vars, deliveries, hist_vars>>

\* The choice of the union member with the test of SA_SIGINFO inverted.
CallForm_Swapped(sa) ==
    IF SA_SIGINFO \in sa.sa_flags THEN "sa_handler" ELSE "sa_sigaction"

\* Which member of the handler union is called.
CallForm(sa) ==
    IF SA_SIGINFO \in sa.sa_flags THEN "sa_sigaction" ELSE "sa_handler"

\* The call through the saved handler reference, with sig_num as its first
\* argument.  A reference that is no function (SIG_DFL is 0, SIG_IGN is 1)
\* makes the call a wild jump.  A saved reference to _host_signal_handler
\* itself recurses; the recursion is cut at the bounds of the model.
ChainCall(t) ==
    /\ At(t, "call")
    /\ LET sa == g_previous_sigaction[Top(t).sig]
           called == [Top(t) EXCEPT !.form = CallForm(sa),
                                    !.arg = Top(t).sig,
                                    !.ncalls = @ + 1]
       IN  IF sa.sa_handler = USER_HANDLER
           THEN /\ stack' = SetTop(t, [called EXCEPT !.pc = "in_handler"])
                /\ prev_calls' = prev_calls + 1
           ELSE IF sa.sa_handler = HOST_HANDLER
           THEN /\ Len(stack[t]) < MaxDepth
                /\ prev_calls < MaxDeliveries * MaxDepth
                /\ stack' = [stack EXCEPT ![t] =
                       <<NewFrame(Top(t).sig, mask[t], TRUE),
                         [called EXCEPT !.pc = "restore"]>> \o Tail(@)]
                /\ prev_calls' = prev_calls + 1
           ELSE /\ stack' = SetTop(t, [called EXCEPT !.pc = "wild"])
                /\ UNCHANGED prev_calls
    /\ UNCHANGED <<status, live, mask, pending, g_previous_sigaction,
                   inst_vars, env_vars, deliveries, caller_mask, pre_install,
                   oneshot_done, dfl_actions, raised, last_outcome>>

\* Execution at the address 0 or 1 faults: the process dies of it or, when
\* SIGSEGV can reach it, the kernel enters _host_signal_handler for the
\* fault; a return from that handler resumes at the faulting address.
WildFault(t) ==
    /\ At(t, "wild")
    /\ \/ /\ status' = "crashed"
          /\ UNCHANGED <<stack, mask>>
       \/ /\ SIGSEGV \notin mask[t]
          /\ live[SIGSEGV].sa_handler = HOST_HANDLER
          /\ Len(stack[t]) < MaxDepth
          /\ Enter(t, SIGSEGV)
          /\ UNCHANGED status
    /\ UNCHANGED <<live, pending, g_previous_sigaction, inst_vars, env_vars,
                   deliveries, hist_vars>>

\* The previous handler returns; it may have changed the thread's mask.
PrevHandlerReturns(t) ==
    /\ At(t, "in_handler")
    /\ \E m \in {mask[t], ScribbleMask} : mask' = [mask EXCEPT ![t] = m]
    /\ stack' = Goto(t, "restore")
    /\ UNCHANGED <<status, live, pending, g_previous_sigaction, inst_vars,
                   env_vars, deliveries, hist_vars>>

\* The chain without the second pthread_sigmask.
ChainRestore_Skipped(t) ==
    /\ At(t, "restore")
    /\ stack' = Goto(t, "resethand")
    /\ UNCHANGED <<status, os_vars, g_previous_sigaction, inst_vars, env_vars,
                   deliveries, hist_vars>>

\* pthread_sigmask(SIG_SETMASK, &current_set, NULL)
ChainRestore(t) ==
    /\ At(t, "restore")
    /\ mask' = [mask EXCEPT ![t] = Top(t).current_set]
    /\ stack' = Goto(t, "resethand")
    /\ UNCHANGED <<status, live, pending, g_previous_sigaction, inst_vars,
                   env_vars, deliveries, hist_vars>>

\* The one-shot reset left out.
ResetHand_Noop(sa) == sa

\* The one-shot reset clearing the flag instead of the handler.
ResetHand_ClearsFlag(sa) ==
    IF SA_RESETHAND \in sa.sa_flags
    THEN [sa EXCEPT !.sa_flags = @ \ {SA_RESETHAND}]
    ELSE sa

\* if (sa_flags & SA_RESETHAND) g_previous_sigaction[sig_num].sa_handler = SIG_DFL
ResetHand(sa) ==
    IF SA_RESETHAND \in sa.sa_flags
    THEN [sa EXCEPT !.sa_handler = SIG_DFL]
    ELSE sa

ChainResetHand(t) ==
    /\ At(t, "resethand")
    /\ LET s == Top(t).sig
       IN  /\ g_previous_sigaction' =
                 [g_previous_sigaction EXCEPT ![s] = ResetHand(@)]
           /\ oneshot_done' =
                 IF SA_RESETHAND \in g_previous_sigaction[s].sa_flags
                 THEN oneshot_done \cup {s}
                 ELSE oneshot_done
    /\ stack' = Goto(t, "return")
    /\ UNCHANGED <<status, os_vars, inst_vars, env_vars, deliveries,
                   caller_mask, pre_install, prev_calls, dfl_actions, raised,
                   last_outcome>>

\* The final return of _host_signal_handler.
Return(t) ==
    /\ At(t, "return")
    /\ LeaveFrame(t)
    /\ UNCHANGED <<status, live, pending, g_previous_sigaction, inst_vars,
                   env_vars, deliveries, hist_vars>>

Next ==
    \/ oe_initialize_host_exception
    \/ QueryMask
    \/ RegisterDefault
    \/ RegisterOptional
    \/ \E t \in Threads, s \in Catalog : Deliver(t, s)
    \/ \E t \in Threads, s \in Catalog : DeliverDefault(t, s)
    \/ \E t \in Threads : Translate(t)
    \/ \E t \in Threads : Resolve(t)
    \/ \E t \in Threads : SignalDfl(t)
    \/ \E t \in Threads : Raise(t)
    \/ \E t \in Threads : ChainAddset(t)
    \/ \E t \in Threads : ChainSetmask(t)
    \/ \E t \in Threads : ChainCall(t)
    \/ \E t \in Threads : WildFault(t)
    \/ \E t \in Threads : PrevHandlerReturns(t)
    \/ \E t \in Threads : ChainRestore(t)
    \/ \E t \in Threads : ChainResetHand(t)
    \/ \E t \in Threads : Return(t)

Spec == Init /\ [][Next]_vars

\* The environment in which a catalog signal may already arrive while
\* _register_signal_handlers is still iterating.
InitEarly ==
    /\ InitWith(1, TRUE)
    /\ env_sig \in {SIGBUS, SIGUSR1}
    /\ mask[MAIN] = {SIGINT}
SpecEarly == InitEarly /\ [][Next]_vars

\* The host program that calls oe_initialize_host_exception twice.
InitReinit ==
    /\ InitWith(2, FALSE)
    /\ env_sig = SIGBUS
    /\ live[SIGBUS].sa_flags \subseteq {SA_SIGINFO}
    /\ mask[MAIN] = {SIGINT}
SpecReinit == InitReinit /\ [][Next]_vars

(* ====================================================================== *)
(* Properties                                                              *)
(* ====================================================================== *)
Frames(t) == {stack[t][i] : i \in 1..Len(stack[t])}
AllFrames == UNION {Frames(t) : t \in Threads}
\* The step is one of the innermost handler activation of thread t (not a
\* nested delivery to t, not a step of another thread).
FrameStep(t) ==
    /\ stack[t] # <<>>
    /\ stack'[t] # stack[t]
    /\ Len(stack'[t]) <= Len(stack[t])
\* The step leaves everything but the handler's own activation alone.
NoEffect(t) ==
    /\ live' = live
    /\ g_previous_sigaction' = g_previous_sigaction
    /\ pending' = pending
    /\ status' = status
    /\ prev_calls' = prev_calls
    /\ raised' = raised
    /\ dfl_actions' = dfl_actions
    /\ \A u \in Threads \ {t} : mask'[u] = mask[u] /\ stack'[u] = stack[u]
\* The handler returns at this step, to the mask the signal interrupted.
ReturnsClean(t) ==
    /\ stack'[t] = Tail(stack[t])
    /\ mask'[t] = Top(t).uc_mask

\* C1: the signal_number passed to oe_host_handle_exception is 0 exactly for
\* SIGBUS, SIGFPE, SIGILL and SIGTRAP; for SIGSEGV and for every optional
\* signal it is the number of the delivered signal.
C1_CarveOut ==
    \A f \in AllFrames :
        f.action # "none" =>
            /\ f.sig \in Catalog
            /\ f.signal_number = 0 <=> f.sig \in {SIGBUS, SIGFPE, SIGILL, SIGTRAP}
            /\ f.sig \in {SIGSEGV, SIGHUP, SIGABRT, SIGALRM, SIGPIPE, SIGPOLL,
                          SIGUSR1, SIGUSR2} => f.signal_number = f.sig

C1_Witness ==
    \E f \in AllFrames :
        f.action # "none" /\ f.sig = SIGTRAP /\ f.signal_number = 0

\* C2: with the saved disposition default, a mandatory signal or SIGABRT
\* and a NOT_HANDLED verdict, the handler goes on to signal(s, SIG_DFL),
\* which makes the live disposition default, and then to raise(s), at which
\* the default action happens with no new entry of _host_signal_handler;
\* the default action happens at most once.
C2_Reraise ==
    /\ [][\A t \in Threads :
            /\ ( /\ At(t, "resolve")
                 /\ FrameStep(t)
                 /\ Top(t).action = OE_EXCEPTION_CONTINUE_SEARCH
                 /\ g_previous_sigaction[Top(t).sig].sa_handler = SIG_DFL
                 /\ Top(t).sig \in Mandatory \cup {SIGABRT} )
               => /\ Len(stack'[t]) = Len(stack[t])
                  /\ stack'[t][1].pc = "signal"
                  /\ live' = live
            /\ (At(t, "signal") /\ FrameStep(t))
               => /\ live'[Top(t).sig].sa_handler = SIG_DFL
                  /\ stack'[t][1].pc = "raise"
            /\ (At(t, "raise") /\ raised' # raised /\ stack'[t][1].sig = Top(t).sig
                   /\ (stack'[t] # stack[t] \/ status' # status))
               => /\ live[Top(t).sig].sa_handler = SIG_DFL
                  /\ status' = "terminated"
                  /\ dfl_actions' = dfl_actions + 1
                  /\ stack' = stack
         ]_vars
    /\ [](dfl_actions <= 1)

C2_Witness ==
    /\ status = "terminated"
    /\ raised = 1
    /\ dfl_actions = 1
    /\ \E t \in Threads :
          /\ stack[t] # <<>>
          /\ Top(t).pc = "raise"
          /\ Top(t).sig = SIGABRT

\* C3: with the saved disposition default, an optional signal other than
\* SIGABRT and a NOT_HANDLED verdict, the handler returns at once: live
\* dispositions, Registry and pending signals are unchanged, the thread's
\* mask is again the interrupted one, no previous handler is invoked and
\* nothing is raised.
C3_Swallow ==
    [][\A t \in Threads :
          ( /\ At(t, "resolve")
            /\ FrameStep(t)
            /\ Top(t).action = OE_EXCEPTION_CONTINUE_SEARCH
            /\ g_previous_sigaction[Top(t).sig].sa_handler = SIG_DFL
            /\ Top(t).sig \in Optional \ {SIGABRT} )
          => (NoEffect(t) /\ ReturnsClean(t))
      ]_vars

C3_Witness ==
    /\ last_outcome = "bypass"
    /\ env_sig = SIGUSR1
    /\ status = "running"
    /\ \A t \in Threads : stack[t] = <<>>
    /\ live[SIGUSR1].sa_handler = HOST_HANDLER

\* C10: with a CONTINUE verdict the handler returns at once: live
\* dispositions, Registry and pending signals are unchanged, the thread's
\* mask is again the interrupted one, no previous handler is invoked and
\* nothing is raised; building the context changes none of these either.
C10_ContinueNoEffect ==
    [][\A t \in Threads :
          /\ ( /\ At(t, "resolve")
               /\ FrameStep(t)
               /\ Top(t).action = OE_EXCEPTION_CONTINUE_EXECUTION )
             => (NoEffect(t) /\ ReturnsClean(t))
          /\ (At(t, "translate") /\ FrameStep(t))
             => (NoEffect(t) /\ mask'[t] = mask[t])
      ]_vars

C10_Witness ==
    /\ last_outcome = "continue"
    /\ env_sig = SIGSEGV
    /\ pre_install[SIGSEGV].sa_handler = USER_HANDLER
    /\ status = "running"
    /\ \A t \in Threads : stack[t] = <<>>
    /\ prev_calls = 0

ChainLabels ==
    {"sigaddset", "sigmask", "call", "in_handler", "wild", "restore",
     "resethand"}

\* C4 as stated: after a chained delivery of s whose saved disposition
\* has SA_RESETHAND, the live OS disposition of s is the default action.
C4_LiveDispositionReset ==
    \A s \in oneshot_done : live[s].sa_handler = SIG_DFL

\* C4, amended: after a chained delivery of s whose saved disposition has
\* SA_RESETHAND, the handler saved in the Registry for s is the default
\* action, and the live OS disposition of s is still _host_signal_handler
\* unless a later delivery of s has taken the re-raise path.
C4_SavedHandlerReset ==
    \A s \in oneshot_done :
        /\ g_previous_sigaction[s].sa_handler = SIG_DFL
        /\ \/ live[s].sa_handler = HOST_HANDLER
           \/ \E f \in AllFrames : f.sig = s /\ f.pc = "raise"

C4_Witness ==
    /\ oneshot_done = {SIGSEGV}
    /\ live[SIGSEGV].sa_handler = HOST_HANDLER
    /\ prev_calls = 1

\* C5: a delivery of s that starts after a one-shot chained delivery of s
\* has completed, and for which the runtime answers NOT_HANDLED, never
\* enters the chain and never invokes the old handler.
C5_OneShotNotReinvoked ==
    \A f \in AllFrames :
        (f.late /\ f.action = OE_EXCEPTION_CONTINUE_SEARCH) =>
            (f.form = "none" /\ f.pc \notin ChainLabels)

C5_Witness ==
    \E f \in AllFrames :
        /\ f.late
        /\ f.action = OE_EXCEPTION_CONTINUE_SEARCH
        /\ f.pc = "raise"
        /\ prev_calls = 1

\* C6 as stated: once oe_initialize_host_exception has returned, the mask
\* registered with the installed handler of every catalog signal is the
\* caller's mask at install time without the twelve catalog signals.
C6_InstallerMask ==
    inst_pc = "returned" =>
        \A s \in Catalog :
            live[s].sa_handler = HOST_HANDLER =>
                live[s].sa_mask = caller_mask \ Catalog

\* C7 as stated: no step of _host_signal_handler changes any field of any
\* Registry entry.
C7_RegistryReadOnly ==
    [][(\E t \in Threads : FrameStep(t)) =>
          g_previous_sigaction' = g_previous_sigaction]_vars

\* C7, amended: a step of _host_signal_handler never changes the flags of a
\* Registry entry nor any entry but that of the signal it handles; in that
\* entry it only adds the signal to the saved mask, on the chain path when
\* SA_NODEFER is absent, and only sets the saved handler to SIG_DFL, at the
\* end of the chain path when SA_RESETHAND is set; outside the chain path
\* it changes nothing of the Registry.
C7_RegistryChangesOnlyInChain ==
    [][\A t \in Threads : FrameStep(t) =>
          \A x \in Signals :
              LET a == g_previous_sigaction[x]
                  b == g_previous_sigaction'[x]
              IN  /\ b.sa_flags = a.sa_flags
                  /\ b # a => (x = Top(t).sig /\ Top(t).pc \in ChainLabels)
                  /\ b.sa_mask # a.sa_mask =>
                        /\ b.sa_mask = a.sa_mask \cup {x}
                        /\ SA_NODEFER \notin a.sa_flags
                  /\ b.sa_handler # a.sa_handler =>
                        /\ b.sa_handler = SIG_DFL
                        /\ SA_RESETHAND \in a.sa_flags
                        /\ Top(t).pc = "resethand"
      ]_vars

C7_Witness ==
    /\ inst_pc = "returned"
    /\ g_previous_sigaction[env_sig].sa_mask # pre_install[env_sig].sa_mask
    /\ g_previous_sigaction[env_sig].sa_handler # pre_install[env_sig].sa_handler
    /\ g_previous_sigaction[env_sig].sa_flags = pre_install[env_sig].sa_flags

\* C8: once the chained previous handler has returned and the Resolver
\* has restored the mask, the thread's mask is the one it had just before
\* the chain's mask swap, whichever calling convention was used and however
\* deeply the delivery is nested.
C8_ChainRestoresMask ==
    \A t \in Threads :
        ( /\ stack[t] # <<>>
          /\ Top(t).form \in {"sa_sigaction", "sa_handler"}
          /\ Top(t).pc \in {"resethand", "return"} )
        => mask[t] = Top(t).before_swap

C8_Witness ==
    \E t \in Threads :
        /\ Len(stack[t]) = 2
        /\ Top(t).form = "sa_handler"
        /\ Top(t).pc = "resethand"
        /\ Top(t).before_swap # g_previous_sigaction[Top(t).sig].sa_mask
        /\ stack[t][2].pc = "in_handler"

\* C9: when oe_initialize_host_exception has returned and no signal has
\* been delivered yet, the Registry entry of every catalog signal is the
\* disposition that was live before installation and its live disposition
\* is _host_signal_handler with SA_SIGINFO | SA_NODEFER | SA_RESTART; the
\* dispositions of the signals outside the catalog are never changed.
C9_InstallerCapture ==
    /\ (inst_pc = "returned" /\ deliveries = 0) =>
          \A s \in Catalog :
              /\ g_previous_sigaction[s] = pre_install[s]
              /\ live[s].sa_handler = HOST_HANDLER
              /\ live[s].sa_flags = {SA_SIGINFO, SA_NODEFER, SA_RESTART}
    /\ \A x \in Signals \ Catalog : live[x] = pre_install[x]

C9_Witness ==
    /\ inst_pc = "returned"
    /\ deliveries = 0
    /\ pre_install[SIGABRT].sa_handler = USER_HANDLER
    /\ g_previous_sigaction[SIGABRT].sa_handler = USER_HANDLER
\* The disposition signal(sig_num, SIG_DFL) leaves behind.
ResetBySignal(s) == SigAction(SIG_DFL, {s}, {SA_RESTART})

\* C11: when the mask query or the registration of a catalog signal
\* fails, the process is aborted and oe_initialize_host_exception never
\* returns; whenever it has returned, no call failed and every catalog
\* signal has been registered (its live disposition is
\* _host_signal_handler, or the default the Resolver re-raised with).
C11_InstallFailureFatal ==
    /\ install_failed => (status = "aborted" /\ inst_pc # "returned")
    /\ inst_pc = "returned" =>
          /\ ~install_failed
          /\ \A s \in Catalog :
                \/ live[s].sa_handler = HOST_HANDLER
                \/ live[s] = ResetBySignal(s)

\* A registration failed after some catalog signals were already
\* intercepted.
C11_Witness ==
    /\ install_failed
    /\ status = "aborted"
    /\ inst_pc = "optional_loop"
    /\ inst_i = 2
    /\ live[SIGHUP].sa_handler = HOST_HANDLER
    /\ live[SIGABRT].sa_handler # HOST_HANDLER

\* The catalog signals whose loop iteration has run.
Registered ==
    IF inst_pc = "returned" THEN Catalog
    ELSE IF inst_pc = "optional_loop"
    THEN Mandatory \cup {optional_signals[i] : i \in 1..(inst_i - 1)}
    ELSE IF inst_pc = "default_loop"
    THEN {default_signals[i] : i \in 1..(inst_i - 1)}
    ELSE {}

\* C12 as stated: in every state in which _host_signal_handler is
\* executing, the Registry entries of all twelve catalog signals have been
\* captured.
C12_FullRegistryBeforeHandler ==
    AllFrames # {} => Registered = Catalog

\* C12, amended: in every state in which _host_signal_handler is executing
\* for a signal s, the Registry entry of s has been captured: s was
\* registered, and the entry holds the flags s had before installation and
\* the handler it had then, or SIG_DFL after a one-shot reset.
C12_DeliveredEntryCaptured ==
    \A f \in AllFrames :
        /\ f.sig \in Registered
        /\ g_previous_sigaction[f.sig].sa_flags = pre_install[f.sig].sa_flags
        /\ g_previous_sigaction[f.sig].sa_handler \in
              {pre_install[f.sig].sa_handler} \cup
              (IF SA_RESETHAND \in pre_install[f.sig].sa_flags
               THEN {SIG_DFL} ELSE {})

\* The previous handler of SIGBUS runs while the Installer is still in its
\* first loop.
C12_Witness ==
    /\ status = "running"
    /\ inst_pc = "default_loop"
    /\ \E t \in Threads :
          /\ stack[t] # <<>>
          /\ Top(t).sig = SIGBUS
          /\ Top(t).pc = "in_handler"

\* C13: while the chained previous handler of s runs, the thread's mask is
\* exactly the mask saved for s at installation plus s when the saved
\* flags lack SA_NODEFER, and exactly the saved mask, s not added, when
\* they include it.
C13_ChainMask ==
    \A t \in Threads :
        (stack[t] # <<>> /\ Top(t).pc = "in_handler") =>
            LET s == Top(t).sig
                sa == pre_install[s]
            IN  mask[t] = sa.sa_mask \cup
                   (IF SA_NODEFER \in sa.sa_flags THEN {} ELSE {s})

\* A previous handler saved with SA_NODEFER runs with its own signal
\* unblocked.
C13_Witness ==
    \E t \in Threads :
        /\ stack[t] # <<>>
        /\ Top(t).pc = "in_handler"
        /\ SA_NODEFER \in pre_install[Top(t).sig].sa_flags
        /\ Top(t).sig \notin mask[t]
        /\ mask[t] # Top(t).before_swap

\* The calling convention a saved disposition asks for.
FormFor(flags) ==
    IF SA_SIGINFO \in flags THEN "sa_sigaction" ELSE "sa_handler"

\* C14: for a delivery of a mandatory signal other than SIGSEGV, reported
\* to the runtime as 0 and answered NOT_HANDLED, the Resolver is keyed on
\* the delivered signal: it chains only when the Registry entry of the
\* delivered signal named a handler, re-raises only when that entry is the
\* default (captured so, or reset after a one-shot chain), never swallows,
\* resets and raises the delivered signal, and passes the delivered number
\* to the previous handler in the form the entry's flags ask for.
C14_ResolverKeyedOnDelivered ==
    /\ \A f \in AllFrames :
          (f.signal_number = 0 /\ f.action = OE_EXCEPTION_CONTINUE_SEARCH) =>
             /\ f.sig \in Mandatory \ {SIGSEGV}
             /\ f.pc \in ChainLabels =>
                   pre_install[f.sig].sa_handler # SIG_DFL
             /\ f.pc \in {"signal", "raise"} =>
                   \/ pre_install[f.sig].sa_handler = SIG_DFL
                   \/ f.sig \in oneshot_done
             /\ f.pc = "raise" => live[f.sig] = ResetBySignal(f.sig)
             /\ f.ncalls > 0 =>
                   /\ f.arg = f.sig
                   /\ f.form = FormFor(pre_install[f.sig].sa_flags)
    /\ last_outcome = "bypass" => env_sig \notin Mandatory

\* The previous handler of SIGBUS is running for a delivery that was
\* reported to the runtime as signal 0.
C14_Witness ==
    \E f \in AllFrames :
        /\ f.sig = SIGBUS
        /\ f.signal_number = 0
        /\ f.pc = "in_handler"
        /\ f.arg = SIGBUS

\* C15: an activation on the chain path makes the call of the previous
\* handler exactly once, through sa_sigaction (three arguments) exactly
\* when the flags saved for its signal include SA_SIGINFO and through
\* sa_handler (one argument) otherwise; an activation that has not reached
\* the call, or took the CONTINUE, swallow or re-raise outcome, has made
\* no call; previous handlers run at most once per delivery.
C15_CallFormAndCount ==
    /\ \A f \in AllFrames :
          /\ f.ncalls \in {0, 1}
          /\ f.ncalls = 1 <=> f.form # "none"
          /\ f.pc \in {"in_handler", "wild", "restore", "resethand"} =>
                /\ f.ncalls = 1
                /\ f.form = FormFor(pre_install[f.sig].sa_flags)
          /\ f.pc \in {"translate", "resolve", "signal", "raise",
                       "sigaddset", "sigmask", "call"} =>
                f.ncalls = 0
          /\ f.pc = "return" =>
                (f.ncalls = 1 => f.form = FormFor(pre_install[f.sig].sa_flags))
    /\ prev_calls <= deliveries
    /\ prev_calls > 0 => pre_install[env_sig].sa_handler = USER_HANDLER
    /\ last_outcome \in {"none", "continue", "bypass"} /\ AllFrames = {} =>
          prev_calls = 0 \/ deliveries > 1

\* An extended-info previous handler is running, called once.
C15_Witness ==
    \E f \in AllFrames :
        /\ f.pc = "in_handler"
        /\ SA_SIGINFO \in pre_install[f.sig].sa_flags
        /\ f.form = "sa_sigaction"
        /\ f.ncalls = 1
        /\ prev_calls = 1

\* C16: every activation of _host_signal_handler starts from a fresh
\* context and calls oe_host_handle_exception first: until that call has
\* returned the activation has taken no Resolver step, and it is past the
\* Resolver's first test only when the call returned NOT_HANDLED.  During a
\* first delivery that has not yet been resolved, no disposition, Registry
\* entry, raise or previous-handler call has happened.
C16_RuntimeFirst ==
    /\ \A f \in AllFrames :
          /\ f.pc = "translate" <=> f.action = "none"
          /\ f.pc = "translate" =>
                /\ f.signal_number = -1
                /\ f.ncalls = 0
                /\ f.form = "none"
                /\ f.current_set = {}
          /\ f.pc # "translate" =>
                /\ f.action \in Verdicts
                /\ f.signal_number =
                      (IF f.sig \in Mandatory \ {SIGSEGV} THEN 0 ELSE f.sig)
          /\ f.pc \notin {"translate", "resolve"} =>
                f.action = OE_EXCEPTION_CONTINUE_SEARCH
    /\ ( /\ deliveries = 1
         /\ last_outcome = "none"
         /\ \A f \in AllFrames : f.pc \in {"translate", "resolve"} ) =>
          /\ prev_calls = 0
          /\ raised = 0
          /\ dfl_actions = 0
          /\ \A s \in Catalog :
                /\ g_previous_sigaction[s] = pre_install[s]
                /\ live[s].sa_handler = HOST_HANDLER
          /\ \A t \in Threads : pending[t] = {}

\* An activation past the Resolver's test, after a NOT_HANDLED answer.
C16_Witness ==
    \E f \in AllFrames :
        /\ f.pc = "sigmask"
        /\ f.action = OE_EXCEPTION_CONTINUE_SEARCH
        /\ f.signal_number = f.sig

\* C17: on the re-raise path for s, signal(s, SIG_DFL) changes the live
\* disposition of s to the default and that of no other signal, and
\* neither it nor raise(s) changes the Registry or a thread's mask; a
\* catalog signal's live disposition is _host_signal_handler unless an
\* activation for that very signal has re-raised it.
C17_ReraiseTouchesOnlyDelivered ==
    /\ [][\A t \in Threads :
            /\ (At(t, "signal") /\ FrameStep(t)) =>
                  /\ live'[Top(t).sig].sa_handler = SIG_DFL
                  /\ \A x \in Signals \ {Top(t).sig} : live'[x] = live[x]
                  /\ g_previous_sigaction' = g_previous_sigaction
                  /\ mask' = mask
                  /\ Top(t)' = [Top(t) EXCEPT !.pc = "raise"]
            /\ (At(t, "raise") /\ raised' # raised) =>
                  /\ live' = live
                  /\ g_previous_sigaction' = g_previous_sigaction
                  /\ mask' = mask
         ]_vars
    /\ [](inst_pc = "returned" =>
            \A x \in Catalog :
                \/ live[x].sa_handler = HOST_HANDLER
                \/ /\ live[x] = ResetBySignal(x)
                   /\ \E f \in AllFrames : f.sig = x /\ f.pc = "raise")

\* SIGBUS has been reset for the re-raise while every other catalog signal
\* is still intercepted.
C17_Witness ==
    /\ \E f \in AllFrames : f.sig = SIGBUS /\ f.pc = "raise"
    /\ live[SIGBUS].sa_handler = SIG_DFL
    /\ \A x \in Catalog \ {SIGBUS} : live[x].sa_handler = HOST_HANDLER
    /\ g_previous_sigaction[SIGBUS] = pre_install[SIGBUS]

\* C18 as stated: the Resolver only ever calls a real handler function: no
\* activation makes its call through a reference that is no function, and
\* an activation for a signal whose disposition before installation was
\* SIG_IGN never enters the chain path.
C18_OnlyRealHandlersCalled ==
    \A f \in AllFrames :
        /\ f.pc # "wild"
        /\ pre_install[f.sig].sa_handler = SIG_IGN => f.pc \notin ChainLabels

\* C19 as stated: a previous handler saved with SA_RESETHAND runs at most
\* once in total, whatever the interleaving of deliveries.
C19_OneShotAtMostOnce ==
    SA_RESETHAND \in pre_install[env_sig].sa_flags => prev_calls <= 1

\* The second call of oe_initialize_host_exception has returned.
SecondCallReturned == init_calls = 0 /\ inst_pc = "returned"

\* C20 as stated: no Registry entry ever names _host_signal_handler as the
\* previous handler, so no activation is entered by a call from the
\* Resolver.
C20_NoSelfReference ==
    /\ \A s \in Signals : g_previous_sigaction[s].sa_handler # HOST_HANDLER
    /\ \A f \in AllFrames : ~f.direct

\* C20, amended: a second call of oe_initialize_host_exception overwrites
\* every Registry entry with the disposition live at that call.  When it
\* has returned, every catalog entry names _host_signal_handler (with
\* SA_SIGINFO, SA_NODEFER, SA_RESTART) or the default a re-raise left, and
\* with no delivery in between every entry is the disposition the first
\* call installed; an activation entered by the Resolver's call is one for
\* a signal whose entry names _host_signal_handler.
C20_SecondCallOverwrites ==
    /\ SecondCallReturned =>
          \A s \in Catalog :
              \/ /\ g_previous_sigaction[s].sa_handler = HOST_HANDLER
                 /\ g_previous_sigaction[s].sa_flags =
                       {SA_SIGINFO, SA_NODEFER, SA_RESTART}
              \/ g_previous_sigaction[s] = ResetBySignal(s)
    /\ (SecondCallReturned /\ deliveries = 0) =>
          \A s \in Catalog :
              /\ g_previous_sigaction[s] = pre_install[s]
              /\ g_previous_sigaction[s].sa_handler = HOST_HANDLER
              /\ live[s] = g_previous_sigaction[s]
    /\ \A f \in AllFrames :
          f.direct => g_previous_sigaction[f.sig].sa_handler = HOST_HANDLER

\* After the second call, a NOT_HANDLED delivery has chained from
\* _host_signal_handler into _host_signal_handler.
C20_Witness ==
    /\ SecondCallReturned
    /\ \E t \in Threads :
          /\ Len(stack[t]) = 2
          /\ stack[t][1].direct
          /\ stack[t][2].sig = stack[t][1].sig
          /\ stack[t][2].ncalls = 1
          /\ stack[t][2].form = "sa_sigaction"

====
